---- MODULE Spec2Model ----
(***************************************************************************)
(* Credential and session management of the AstraByte backend:             *)
(* AuthService (register, login, validate, generateNewAccessToken),        *)
(* UserService.logout, AuthController.newToken and the ErrorFilter, over   *)
(* the Prisma store of User and Account rows.                              *)
(*                                                                         *)
(* Values.  A signed JWT is the record of what jsonwebtoken puts into it:  *)
(* the payload {id, email, role}, iat, exp and the secret that signed it.  *)
(* A TokenCipher string "ivHex:cipherHex" is the record of the IV it       *)
(* carries and of the (key, iv, plaintext) the cipher text was made from.  *)
(* A bcrypt digest is the record of the bytes bcrypt keyed the digest      *)
(* with.  Exceptions are records of their class, HTTP status and message.  *)
(* Time is counted in seconds, the granularity of the JWT iat/exp claims.  *)
(***************************************************************************)
EXTENDS Integers, Sequences, FiniteSets, TLC

(***************************************************************************)
(* Bounds of the model                                                     *)
(***************************************************************************)
\* number of clock advances explored
MaxTicks == 2

(***************************************************************************)
(* Program constants and configuration                                     *)
(***************************************************************************)
\* expiresIn: '15m'
AccessTTL == 900
\* expiresIn: '30d'
RefreshTTL == 2592000
\* bcryptjs keys the digest with at most this many bytes of its input
BcryptMaxInput == 72
\* length of the compact JWT header segment and its '.' for HS256
JwtHeaderLen == 37
\* bytes of payload JSON before the email value: {"id":N,"email":"
JwtPayloadHead == 17

JwtAccessSecret == "JWT_ACCESS_SECRET"
JwtRefreshSecret == "JWT_REFRESH_SECRET"
CryptoSecretKey == "CRYPTO_SECRET_KEY"
InitialVector == "INITIAL_VECTOR"

(***************************************************************************)
(* Input universes                                                         *)
(***************************************************************************)
RegisterEmails == {"ann@x.com"}
OAuthEmails == {"gil@x.com", "ann@x.com", "new@x.com"}
MalformedEmails == {"not-an-email"}
Emails == RegisterEmails \cup OAuthEmails \cup MalformedEmails \cup {"bob@x.com"}
Passwords == {"Secret123", "Wrong1234", "short"}
Providers == {"google"}
ProviderAccountIds == {"g-1", "g-2"}
UserName == "Ann"
UserImage == "http://img/a.png"

\* /[A-Z]/ and /[0-9]/ on the password universe
HasUpper(p) == p \in {"Secret123", "Wrong1234"}
HasDigit(p) == p \in {"Secret123", "Wrong1234"}
\* z.string().email()
IsEmail(e) == e \notin MalformedEmails

(***************************************************************************)
(* Exceptions                                                              *)
(***************************************************************************)
Exception(c, s, m) == [class |-> c, status |-> s, message |-> m]
NoException == Exception("none", 0, "")
ZodError == Exception("ZodError", 400, "zod")
BadRequestException(m) == Exception("BadRequestException", 400, m)
UnauthorizedException(m) == Exception("UnauthorizedException", 401, m)
NotFoundException(m) == Exception("NotFoundException", 404, m)
InternalServerErrorException(m) == Exception("InternalServerErrorException", 500, m)
\* a TypeError, a Prisma error, a crypto or jsonwebtoken error
RawError(m) == Exception("Error", 500, m)

(***************************************************************************)
(* jsonwebtoken                                                            *)
(***************************************************************************)
NoToken == [kind |-> "none"]

\* jwtService.sign({id, email, role}, {secret, expiresIn})
JwtSign(id, email, role, secret, ttl, t) ==
  [kind |-> "jwt", id |-> id, email |-> email, role |-> role,
   iat |-> t, exp |-> t + ttl, secret |-> secret]

\* mutant: verification does not look at exp
JwtVerifyIgnoringExpiry(token, secret, t) ==
  /\ token.kind = "jwt"
  /\ token.secret = secret

\* jwtService.verify(token, {secret}): signature, then exp against the clock
JwtVerify(token, secret, t) ==
  /\ token.kind = "jwt"
  /\ token.secret = secret
  /\ t < token.exp

(***************************************************************************)
(* bcryptjs                                                                *)
(***************************************************************************)
NullHash == [kind |-> "null"]

\* number of characters of the email that fall inside the first
\* BcryptMaxInput bytes of a compact JWT: 72 - 37 = 35 base64 characters
\* decode to 26 whole bytes of payload, 17 of them before the email
EmailBytesHashed == ((BcryptMaxInput - JwtHeaderLen) * 3) \div 4 - JwtPayloadHead

\* the emails of the model are no longer than EmailBytesHashed characters
EmailHead(e) == IF Len(e) <= EmailBytesHashed THEN e ELSE "long"

\* the bytes of a password that bcrypt keys the digest with
PasswordBytes(p) ==
  [head |-> IF Len(p) <= BcryptMaxInput THEN p ELSE "long", id |-> 0, email |-> ""]

\* the bytes of a compact JWT that bcrypt keys the digest with: the header
\* and the start of the payload (ids of one digit); role, iat, exp and the
\* signature lie beyond byte 72
TokenBytes(token) ==
  [head |-> "eyJhbGciOiJIUzI1NiIsInR5cCI6IkpXVCJ9", id |-> token.id,
   email |-> EmailHead(token.email)]

\* bcrypt.hash(s, 10)
BcryptHash(bytes) == [kind |-> "bcrypt", key |-> bytes]

\* bcrypt.compare(s, digest), digest a string
BcryptCompare(bytes, digest) == digest.kind = "bcrypt" /\ digest.key = bytes

(***************************************************************************)
(* TokenCipher: AuthService.encrypt / AuthService.decrypt                  *)
(***************************************************************************)
NoCookie == [kind |-> "none"]
\* a cookie value without ':' separator
GarbageCookie == [kind |-> "garbage"]
\* an issued value cut short inside cipherHex
TruncatedCookie == [kind |-> "truncated"]
\* a value with ':' whose parts are not hexadecimal
NonHexCookie == [kind |-> "nonhex"]

\* the string `${iv}:${encrypted}`: the IV it carries and what the
\* cipher text was made from
CipherText(iv, key, ivUsed, token) ==
  [kind |-> "cipher", iv |-> iv, key |-> key, ivUsed |-> ivUsed, pt |-> token]

\* mutant: the string is the cipher text alone, without the IV
EncryptWithoutIv(token) == CipherText("", CryptoSecretKey, InitialVector, token)

Encrypt(token) == CipherText(InitialVector, CryptoSecretKey, InitialVector, token)

\* decrypt throws
DecryptRaises == [kind |-> "raises"]
\* decrypt returns bytes that are not the plaintext
GarbagePlaintext == [kind |-> "bytes"]

\* What decrypt can do with a value.  split(':') on a value without
\* separator leaves `encrypted` undefined and update throws; Buffer.from
\* of a non-hex IV has the wrong length and createDecipheriv throws; a cut
\* cipher text fails in final.  With the key and the IV the cipher text was
\* made with, the plaintext comes back.  The cipher is a block cipher in
\* CBC mode without authentication: under the right key and another IV
\* final accepts the padding and the first block comes out as other bytes;
\* under another key final throws when the last block does not end in
\* valid padding, and returns other bytes when it happens to.
DecryptOutcomes(c) ==
  IF c.kind # "cipher" THEN {DecryptRaises}
  ELSE IF c.key = CryptoSecretKey /\ c.iv = c.ivUsed THEN {c.pt}
  ELSE IF c.key = CryptoSecretKey THEN {GarbagePlaintext}
  ELSE {DecryptRaises, GarbagePlaintext}

\* createDecipheriv(algorithm, key, ivHex) / update / final: the plaintext
\* comes back when key and IV are the ones the cipher text was made with
DecryptOk(c) ==
  /\ c.kind = "cipher"
  /\ c.key = CryptoSecretKey
  /\ c.iv = c.ivUsed

\* the value decrypt returns when it does not throw
Decrypt(c) == IF DecryptOk(c) THEN c.pt ELSE GarbagePlaintext

(***************************************************************************)
(* AuthService.generateAccessToken / generateRefreshToken                  *)
(***************************************************************************)
\* !userId || !email || !role
TokenArgsMissing(userId, email, role) == userId = 0 \/ email = "" \/ role = ""

GenerateAccessToken(userId, email, role, t) ==
  JwtSign(userId, email, role, JwtAccessSecret, AccessTTL, t)

\* mutant: refresh tokens are signed with the secret of access tokens
GenerateRefreshTokenAccessSecret(userId, email, role, t) ==
  JwtSign(userId, email, role, JwtAccessSecret, RefreshTTL, t)

GenerateRefreshToken(userId, email, role, t) ==
  JwtSign(userId, email, role, JwtRefreshSecret, RefreshTTL, t)

(***************************************************************************)
(* State                                                                   *)
(***************************************************************************)
VARIABLES
  users,      \* User rows: id -> [name, email, password, refreshToken, image, role]
  accounts,   \* Account rows: set of [id, userId, provider, providerAccountId, refreshToken]
  userSeq,    \* last value of the users id sequence
  accountSeq, \* last value of the accounts id sequence
  now,        \* clock, seconds
  ticks,      \* clock advances so far
  issued,     \* refresh cookie values handed to clients so far
  res,        \* the last operation and its outcome
  pending,    \* the generateNewAccessToken call that awaits bcrypt.compare
  calls,      \* register and validate calls between their lookup and their write
  addresses,  \* Address rows: set of [id, userId, street, isPrimary]
  addressSeq  \* last value of the addresses id sequence

vars == <<users, accounts, userSeq, accountSeq, now, ticks, issued, res, pending,
          calls, addresses, addressSeq>>

\* the state of the calls followed through their awaits and of the address
\* table, which the requests of the auth module leave alone
AuthOnly == UNCHANGED <<calls, addresses, addressSeq>>

UserRow(name, email, password, image) ==
  [name |-> name, email |-> email, password |-> password,
   refreshToken |-> NullHash, image |-> image, role |-> "CUSTOMER"]

UsersWithEmail(us, email) == {i \in DOMAIN us : us[i].email = email}

AccountsOf(as, provider, providerAccountId) ==
  {a \in as : a.provider = provider /\ a.providerAccountId = providerAccountId}

\* The outcome of an operation as its caller sees it: the request, the
\* exception that leaves the service (NoException on success), the HTTP
\* status the ErrorFilter answers with, and the values returned or set as
\* cookies.
Response(op, input, err, okStatus, id, accessToken, refreshToken) ==
  [op |-> op, input |-> input, err |-> err,
   status |-> IF err = NoException THEN okStatus ELSE err.status,
   id |-> id, accessToken |-> accessToken, refreshToken |-> refreshToken]

Failure(op, input, err) == Response(op, input, err, 0, 0, NoToken, NoCookie)

NoInput == [none |-> TRUE]

\* A generateNewAccessToken call between its findUnique and the return of
\* bcrypt.compare: the cookie it was given, the row findUnique returned,
\* and the refresh token whose digest a login or validate has stored in
\* that row since (NoToken when none has).
NoCall == [kind |-> "none"]
InFlight(cookie, user) ==
  [kind |-> "call", cookie |-> cookie, user |-> user, overwrittenBy |-> NoToken]

\* the in-flight call after the digest of refreshToken was stored in row id
Overwritten(call, id, refreshToken) ==
  IF call # NoCall /\ call.cookie.pt.id = id
    THEN [call EXCEPT !.overwrittenBy = refreshToken]
    ELSE call

(***************************************************************************)
(* Initial state: an empty database, or the database of an earlier         *)
(* deployment that holds one user who signed in with Google (no password)  *)
(* and the Account row linking the Google identity to it.                  *)
(***************************************************************************)
SeededUsers == 1 :> UserRow(UserName, "gil@x.com", NullHash, UserImage)
SeededAccounts ==
  {[id |-> 1, userId |-> 1, provider |-> "google", providerAccountId |-> "g-1"]}

Init ==
  /\ \/ users = << >> /\ accounts = {} /\ userSeq = 0 /\ accountSeq = 0
     \/ users = SeededUsers /\ accounts = SeededAccounts /\ userSeq = 1 /\ accountSeq = 1
  /\ now = 0
  /\ ticks = 0
  /\ issued = {}
  /\ res = Failure("init", NoInput, NoException)
  /\ pending = NoCall
  /\ calls = {}
  /\ addresses = {}
  /\ addressSeq = 0

(***************************************************************************)
(* Time passes: the life of an access token, or the life of a refresh      *)
(* token.  The awaits of a call in flight end within the clock second.     *)
(***************************************************************************)
Tick ==
  /\ ticks < MaxTicks
  /\ pending = NoCall
  /\ \E d \in {AccessTTL, RefreshTTL} : now' = now + d
  /\ ticks' = ticks + 1
  /\ res' = Failure("tick", NoInput, NoException)
  /\ UNCHANGED <<users, accounts, userSeq, accountSeq, issued, pending>>

(***************************************************************************)
(* AuthService.checkExistingUserEmail                                      *)
(***************************************************************************)
\* prismaService.user.count({where: {email}})
UserCount(us, email) == Cardinality(UsersWithEmail(us, email))

\* mutant: the count of rows with the email is not consulted
CheckExistingUserEmailUnchecked(us, email) ==
  IF email = "" THEN BadRequestException("User email is missing")
  ELSE NoException

CheckExistingUserEmail(us, email) ==
  IF email = "" THEN BadRequestException("User email is missing")
  ELSE IF UserCount(us, email) # 0
    THEN BadRequestException("This email is already registered.")
    ELSE NoException

(***************************************************************************)
(* AuthService.register                                                    *)
(***************************************************************************)
\* AuthValidation.REGISTER
ValidRegister(name, email, password) ==
  /\ Len(name) >= 1
  /\ IsEmail(email)
  /\ Len(password) >= 8
  /\ HasUpper(password)
  /\ HasDigit(password)

\* the unique index on users.email
UserCreateOk(us, email) == UsersWithEmail(us, email) = {}

\* catch of register
RegisterCatch(e) ==
  IF e.class = "ZodError" THEN BadRequestException(e.message)
  ELSE IF e.class = "BadRequestException" THEN e
  ELSE InternalServerErrorException(
         "Something went wrong during registration. Please try again.")

\* the exception register ends with, NoException when it creates the row
RegisterError(us, name, email, password) ==
  IF ~ValidRegister(name, email, password) THEN RegisterCatch(ZodError)
  ELSE IF CheckExistingUserEmail(us, email) # NoException
    THEN RegisterCatch(CheckExistingUserEmail(us, email))
  ELSE IF ~UserCreateOk(us, email)
    THEN RegisterCatch(RawError("Unique constraint failed on the fields: (email)"))
  ELSE NoException

\* mutant: register opens a session like login does
RegisterAuthenticating(name, email, password) ==
  LET err == RegisterError(users, name, email, password)
      id == userSeq + 1
      input == [name |-> name, email |-> email, password |-> password]
      refreshToken == GenerateRefreshToken(id, email, "CUSTOMER", now)
  IN
  /\ IF err = NoException
       THEN /\ users' = (id :> [UserRow(name, email,
                                        BcryptHash(PasswordBytes(password)), "")
                                EXCEPT !.refreshToken =
                                  BcryptHash(TokenBytes(refreshToken))]) @@ users
            /\ userSeq' = id
            /\ res' = Response("register", input, NoException, 201, id,
                               GenerateAccessToken(id, email, "CUSTOMER", now),
                               Encrypt(refreshToken))
       ELSE /\ res' = Failure("register", input, err)
            /\ UNCHANGED <<users, userSeq>>
  /\ UNCHANGED <<accounts, accountSeq, now, ticks, issued, pending>>

Register(name, email, password) ==
  LET err == RegisterError(users, name, email, password)
      id == userSeq + 1
      input == [name |-> name, email |-> email, password |-> password]
  IN
  /\ IF err = NoException
       THEN /\ users' = (id :> UserRow(name, email,
                                       BcryptHash(PasswordBytes(password)), "")) @@ users
            /\ userSeq' = id
            /\ res' = Response("register", input, NoException, 201,
                               id, NoToken, NoCookie)
       ELSE /\ res' = Failure("register", input, err)
            /\ UNCHANGED <<users, userSeq>>
  /\ UNCHANGED <<accounts, accountSeq, now, ticks, issued, pending>>

(***************************************************************************)
(* AuthService.findUserByEmail                                             *)
(***************************************************************************)
\* prismaService.user.findUnique({where: {email}}): the row's id, 0 for null
UserIdByEmail(us, email) ==
  IF UsersWithEmail(us, email) = {} THEN 0
  ELSE CHOOSE i \in UsersWithEmail(us, email) : TRUE

\* catch of findUserByEmail
FindUserByEmailCatch(e) ==
  IF e.class = "NotFoundException" THEN e
  ELSE InternalServerErrorException(
         "Something went wrong during finding user. Please try again.")

\* the exception findUserByEmail ends with.  With no row, the argument
\* user.email of the warn call is evaluated on null before the
\* UnauthorizedException is reached, and the catch lets neither through.
FindUserByEmailError(us, email) ==
  IF email = "" THEN BadRequestException("User email is missing")
  ELSE IF UserIdByEmail(us, email) = 0
    THEN FindUserByEmailCatch(RawError("Cannot read properties of null"))
    ELSE NoException

(***************************************************************************)
(* AuthService.login                                                       *)
(***************************************************************************)
\* AuthValidation.LOGIN
ValidLogin(email, password) == IsEmail(email) /\ Len(password) >= 8

\* mutant: the catch of login rethrows what it does not know
LoginCatchRethrow(e) ==
  IF e.class = "ZodError" THEN BadRequestException(e.message) ELSE e

\* catch of login
LoginCatch(e) ==
  IF e.class = "ZodError" THEN BadRequestException(e.message)
  ELSE IF e.class \in {"UnauthorizedException", "BadRequestException"} THEN e
  ELSE InternalServerErrorException(
         "Something went wrong during login. Please try again.")

\* bcrypt.compare(loginRequest.password, user.password): bcryptjs rejects
\* a digest that is not a string
PasswordCheck(password, digest) ==
  IF digest = NullHash THEN RawError("Illegal arguments: string, object")
  ELSE IF ~BcryptCompare(PasswordBytes(password), digest)
    THEN UnauthorizedException("Invalid email or password.")
    ELSE NoException

\* the exception login ends with, NoException when it issues tokens
LoginError(us, email, password) ==
  IF ~ValidLogin(email, password) THEN LoginCatch(ZodError)
  ELSE IF FindUserByEmailError(us, email) # NoException
    THEN LoginCatch(FindUserByEmailError(us, email))
  ELSE LET user == us[UserIdByEmail(us, email)] IN
    IF PasswordCheck(password, user.password) # NoException
      THEN LoginCatch(PasswordCheck(password, user.password))
    ELSE IF TokenArgsMissing(UserIdByEmail(us, email), user.email, user.role)
      THEN LoginCatch(BadRequestException("User ID or email or role is missing"))
    ELSE NoException

\* mutant: the digest is taken of the cipher text sent to the client
StoredCipherHash(refreshToken) ==
  BcryptHash([head |-> InitialVector, id |-> 0, email |-> ""])

\* mutant: the refresh token itself is written to the column
StoredRawRefreshToken(refreshToken) == refreshToken

\* data: { refreshToken: hashedRefreshToken }
StoredRefreshHash(refreshToken) == BcryptHash(TokenBytes(refreshToken))

\* prismaService.user.update({where, data: {refreshToken}})
SetRefreshToken(us, id, digest) == [us EXCEPT ![id].refreshToken = digest]

\* mutant: a login that fails for a known email clears the stored digest
LoginClearingOnFailure(email, password) ==
  LET err == LoginError(users, email, password)
      id == UserIdByEmail(users, email)
      refreshToken == GenerateRefreshToken(id, users[id].email, users[id].role, now)
      input == [email |-> email, password |-> password]
  IN
  /\ IF err = NoException
       THEN /\ users' = SetRefreshToken(users, id, StoredRefreshHash(refreshToken))
            /\ issued' = issued \cup {Encrypt(refreshToken)}
            /\ res' = Response("login", input, NoException, 200, id,
                               GenerateAccessToken(id, users[id].email,
                                                   users[id].role, now),
                               Encrypt(refreshToken))
       ELSE /\ res' = Failure("login", input, err)
            /\ users' = IF id = 0 THEN users ELSE SetRefreshToken(users, id, NullHash)
            /\ UNCHANGED issued
  /\ pending' = IF err = NoException THEN Overwritten(pending, id, refreshToken)
                ELSE pending
  /\ UNCHANGED <<accounts, userSeq, accountSeq, now, ticks>>

Login(email, password) ==
  LET err == LoginError(users, email, password)
      id == UserIdByEmail(users, email)
      accessToken == GenerateAccessToken(id, users[id].email, users[id].role, now)
      refreshToken == GenerateRefreshToken(id, users[id].email, users[id].role, now)
      encryptToken == Encrypt(refreshToken)
      input == [email |-> email, password |-> password]
  IN
  /\ IF err = NoException
       THEN /\ users' = SetRefreshToken(users, id, StoredRefreshHash(refreshToken))
            /\ issued' = issued \cup {encryptToken}
            /\ res' = Response("login", input, NoException, 200,
                               id, accessToken, encryptToken)
       ELSE /\ res' = Failure("login", input, err)
            /\ UNCHANGED <<users, issued>>
  /\ pending' = IF err = NoException THEN Overwritten(pending, id, refreshToken)
                ELSE pending
  /\ UNCHANGED <<accounts, userSeq, accountSeq, now, ticks>>

(***************************************************************************)
(* AuthService.findAccount                                                 *)
(***************************************************************************)
\* the exception findAccount ends with.  With no row, the argument
\* account.id of the info call is evaluated on null, and the catch turns
\* every error into an InternalServerErrorException.
FindAccountError(accs, provider, providerAccountId) ==
  IF provider = "" \/ providerAccountId = ""
    THEN BadRequestException("Account provider or provider account ID is missing")
  ELSE IF AccountsOf(accs, provider, providerAccountId) = {}
    THEN InternalServerErrorException(
           "Something went wrong during finding account. Please try again.")
    ELSE NoException

(***************************************************************************)
(* AuthService.findUserById                                                *)
(***************************************************************************)
\* catch of findUserById
FindUserByIdCatch(e) ==
  IF e.class = "NotFoundException" THEN e
  ELSE InternalServerErrorException(
         "Something went wrong during finding user. Please try again.")

\* the exception findUserById ends with, NoException when it issues tokens
FindUserByIdError(us, id) ==
  IF id = 0 THEN BadRequestException("User ID is missing")
  ELSE IF id \notin DOMAIN us
    THEN FindUserByIdCatch(RawError("Cannot read properties of null"))
  ELSE IF TokenArgsMissing(id, us[id].email, us[id].role)
    THEN FindUserByIdCatch(BadRequestException("User ID or email or role is missing"))
  ELSE NoException

\* the rows after findUserById has stored the digest of its refresh token
FindUserByIdStore(us, id, t) ==
  SetRefreshToken(us, id,
    StoredRefreshHash(GenerateRefreshToken(id, us[id].email, us[id].role, t)))

(***************************************************************************)
(* AuthService.validate                                                    *)
(***************************************************************************)
\* AuthValidation.VALIDATEUSER
ValidValidate(provider, providerAccountId, email, name, image) ==
  /\ IsEmail(email)
  /\ Len(name) >= 1
  /\ Len(image) >= 1
  /\ Len(provider) >= 1
  /\ Len(providerAccountId) >= 1

\* catch of validate
ValidateCatch(e) ==
  IF e.class = "ZodError" THEN BadRequestException(e.message)
  ELSE IF e.class = "BadRequestException" THEN e
  ELSE InternalServerErrorException(
         "Something went wrong during validation account. Please try again")

\* prismaService.account.create with the nested user create
CreatedUsers(us, seq, email, name, image) ==
  ((seq + 1) :> UserRow(name, email, NullHash, image)) @@ us

CreatedAccount(seq, userId, provider, providerAccountId) ==
  [id |-> seq + 1, userId |-> userId, provider |-> provider,
   providerAccountId |-> providerAccountId]

\* the exception validate ends with, NoException when it returns the account
ValidateError(us, accs, provider, providerAccountId, email, name, image) ==
  IF ~ValidValidate(provider, providerAccountId, email, name, image)
    THEN ValidateCatch(ZodError)
  ELSE IF FindAccountError(accs, provider, providerAccountId) # NoException
    THEN ValidateCatch(FindAccountError(accs, provider, providerAccountId))
  ELSE IF /\ AccountsOf(accs, provider, providerAccountId) = {}
          /\ CheckExistingUserEmail(us, email) # NoException
    THEN ValidateCatch(CheckExistingUserEmail(us, email))
  ELSE NoException

Validate(provider, providerAccountId, email, name, image) ==
  LET err == ValidateError(users, accounts, provider, providerAccountId,
                           email, name, image)
      found == AccountsOf(accounts, provider, providerAccountId)
      us1 == IF found = {} THEN CreatedUsers(users, userSeq, email, name, image)
             ELSE users
      account == IF found = {}
                   THEN CreatedAccount(accountSeq, userSeq + 1, provider,
                                       providerAccountId)
                   ELSE CHOOSE a \in found : TRUE
      err2 == FindUserByIdError(us1, account.userId)
      us2 == FindUserByIdStore(us1, account.userId, now)
      refreshToken == GenerateRefreshToken(account.userId, email,
                                           us2[account.userId].role, now)
      input == [provider |-> provider, providerAccountId |-> providerAccountId,
                email |-> email, name |-> name, image |-> image]
  IN
  /\ IF err # NoException
       THEN /\ res' = Failure("validate", input, err)
            /\ UNCHANGED <<users, accounts, userSeq, accountSeq>>
       ELSE /\ accounts' = accounts \cup {account}
            /\ userSeq' = IF found = {} THEN userSeq + 1 ELSE userSeq
            /\ accountSeq' = IF found = {} THEN accountSeq + 1 ELSE accountSeq
            /\ IF err2 # NoException
                 THEN /\ users' = us1
                      /\ res' = Failure("validate", input, ValidateCatch(err2))
                 ELSE /\ users' = SetRefreshToken(us2, account.userId,
                                                  StoredRefreshHash(refreshToken))
                      /\ res' = Response("validate", input, NoException, 200,
                                         account.userId, NoToken, NoCookie)
  /\ pending' = IF err = NoException /\ err2 = NoException
                  THEN Overwritten(pending, account.userId, refreshToken)
                  ELSE pending
  /\ UNCHANGED <<now, ticks, issued>>

(***************************************************************************)
(* AuthService.generateNewAccessToken                                      *)
(***************************************************************************)
\* catch of generateNewAccessToken
RefreshCatch(e) ==
  IF e.class \in {"UnauthorizedException", "BadRequestException"} THEN e
  ELSE InternalServerErrorException(
         "Something went wrong during generate access token. Please try again.")

\* the exception generateNewAccessToken ends with, NoException when it
\* returns a new access token.  A value that decrypt does not turn into
\* the plaintext ends in the same catch whether decrypt throws or
\* jwtService.verify throws on the bytes decrypt returned.
RefreshError(us, cookie, t) ==
  IF cookie = NoCookie THEN BadRequestException("Refresh token is missing")
  ELSE IF ~DecryptOk(cookie) THEN RefreshCatch(RawError("bad decrypt"))
  ELSE LET payload == Decrypt(cookie) IN
    IF ~JwtVerify(payload, JwtRefreshSecret, t)
      THEN RefreshCatch(RawError("jwt expired"))
    ELSE IF payload.id \notin DOMAIN us
      THEN RefreshCatch(UnauthorizedException("User not found"))
    ELSE IF us[payload.id].refreshToken = NullHash
      THEN RefreshCatch(UnauthorizedException("Refresh token not found"))
    ELSE IF ~BcryptCompare(TokenBytes(payload), us[payload.id].refreshToken)
      THEN RefreshCatch(UnauthorizedException("Invalid refresh token"))
    ELSE IF TokenArgsMissing(payload.id, us[payload.id].email, us[payload.id].role)
      THEN RefreshCatch(BadRequestException("User ID or email or role is missing"))
    ELSE NoException

\* the value generateNewAccessToken returns
RefreshResponse(op, us, cookie, t) ==
  LET err == RefreshError(us, cookie, t)
      id == Decrypt(cookie).id
  IN IF err = NoException
       THEN Response(op, [cookie |-> cookie], NoException, 200, id,
                     GenerateAccessToken(id, us[id].email, us[id].role, t), NoCookie)
       ELSE Failure(op, [cookie |-> cookie], err)

\* mutant: a refresh token can be used once
GenerateNewAccessTokenRotating(cookie) ==
  /\ res' = RefreshResponse("refresh", users, cookie, now)
  /\ users' = IF RefreshError(users, cookie, now) = NoException
                THEN SetRefreshToken(users, Decrypt(cookie).id, NullHash)
                ELSE users
  /\ UNCHANGED <<accounts, userSeq, accountSeq, now, ticks, issued, pending>>

\* the service method called by itself
GenerateNewAccessToken(cookie) ==
  /\ res' = RefreshResponse("refresh", users, cookie, now)
  /\ UNCHANGED <<users, accounts, userSeq, accountSeq, now, ticks, issued, pending>>

(***************************************************************************)
(* generateNewAccessToken interleaved with other requests.  The method     *)
(* awaits findUnique and then bcrypt.compare; requests handled in between  *)
(* see and change the store, while the call goes on with the row it read.  *)
(***************************************************************************)
\* the call up to the return of findUnique: decrypt and verify have passed
\* and a row was found
RefreshBegin(cookie) ==
  /\ pending = NoCall
  /\ cookie # NoCookie
  /\ DecryptOk(cookie)
  /\ JwtVerify(Decrypt(cookie), JwtRefreshSecret, now)
  /\ Decrypt(cookie).id \in DOMAIN users
  /\ pending' = InFlight(cookie, users[Decrypt(cookie).id])
  /\ res' = Failure("refreshBegin", [cookie |-> cookie], NoException)
  /\ UNCHANGED <<users, accounts, userSeq, accountSeq, now, ticks, issued>>

\* the exception the call ends with, from the row it read
RefreshFinishError(call) ==
  IF call.user.refreshToken = NullHash
    THEN RefreshCatch(UnauthorizedException("Refresh token not found"))
  ELSE IF ~BcryptCompare(TokenBytes(Decrypt(call.cookie)), call.user.refreshToken)
    THEN RefreshCatch(UnauthorizedException("Invalid refresh token"))
  ELSE IF TokenArgsMissing(Decrypt(call.cookie).id, call.user.email, call.user.role)
    THEN RefreshCatch(BadRequestException("User ID or email or role is missing"))
  ELSE NoException

\* the rest of the call: the checks on the row it read, and the new token
RefreshFinish ==
  LET err == RefreshFinishError(pending)
      id == Decrypt(pending.cookie).id
      input == [cookie |-> pending.cookie]
  IN
  /\ pending # NoCall
  /\ res' = IF err = NoException
              THEN Response("refreshInterleaved", input, NoException, 200, id,
                            GenerateAccessToken(id, pending.user.email,
                                                pending.user.role, now), NoCookie)
              ELSE Failure("refreshInterleaved", input, err)
  /\ pending' = NoCall
  /\ UNCHANGED <<users, accounts, userSeq, accountSeq, now, ticks, issued>>

(***************************************************************************)
(* AuthController.newToken, answered through ErrorFilter.catch             *)
(***************************************************************************)
\* POST /auth/new-token with the refresh_token cookie `cookie`, from the
\* handler on: the accessToken of the response is the access_token cookie
\* it sets, the status what ErrorFilter.catch answers for the exception
NewToken(cookie) ==
  /\ res' = IF cookie = NoCookie
              THEN Failure("newToken", [cookie |-> cookie],
                           UnauthorizedException("Refresh token not found"))
              ELSE RefreshResponse("newToken", users, cookie, now)
  /\ UNCHANGED <<users, accounts, userSeq, accountSeq, now, ticks, issued, pending>>

(***************************************************************************)
(* UserService.logout                                                      *)
(***************************************************************************)
\* handleErrorService.service
HandleServiceError(e) ==
  IF e.class \in {"ZodError", "BadRequestException", "NotFoundException"} THEN e
  ELSE InternalServerErrorException("An unexpected error occurred. Please try again.")

\* mutant: the update of logout writes nothing
LogoutStoreSkipped(us, id) == us

\* prismaService.user.update({where: {email}, data: {refreshToken: null}})
LogoutStore(us, id) == SetRefreshToken(us, id, NullHash)

\* mutant: logout refuses a row without a stored digest
LogoutErrorWithoutSession(us, email) ==
  IF UserIdByEmail(us, email) = 0
    THEN InternalServerErrorException("An unexpected error occurred. Please try again.")
  ELSE IF us[UserIdByEmail(us, email)].refreshToken = NullHash
    THEN InternalServerErrorException("An unexpected error occurred. Please try again.")
  ELSE NoException

\* the exception logout ends with: the update throws when no row has the
\* email, and handleErrorService.service turns that into a 500
LogoutError(us, email) ==
  IF UserIdByEmail(us, email) = 0
    THEN HandleServiceError(RawError("Record to update not found."))
    ELSE NoException

\* user is the decoded access token; the row is addressed by user.email
Logout(email) ==
  LET err == LogoutError(users, email)
      id == UserIdByEmail(users, email)
  IN
  /\ IF err = NoException
       THEN /\ users' = LogoutStore(users, id)
            /\ res' = Response("logout", [email |-> email], NoException, 200,
                               id, NoToken, NoCookie)
       ELSE /\ res' = Failure("logout", [email |-> email], err)
            /\ UNCHANGED users
  /\ UNCHANGED <<accounts, userSeq, accountSeq, now, ticks, issued, pending>>

(***************************************************************************)
(* JwtStrategy: the access_token cookie verified by passport-jwt for the   *)
(* routes behind JwtAuthGuard                                              *)
(***************************************************************************)
\* jwtFromRequest returns null or the verification with JWT_ACCESS_SECRET
\* (ignoreExpiration: false) fails: passport answers 401; validate throws
\* an Error when no row has payload.id
JwtStrategyError(us, token, t) ==
  IF token = NoToken THEN UnauthorizedException("Unauthorized")
  ELSE IF ~JwtVerify(token, JwtAccessSecret, t)
    THEN UnauthorizedException("Unauthorized")
  ELSE IF token.id \notin DOMAIN us THEN RawError("User not found")
  ELSE NoException

\* a request to a guarded route with `token` in the access_token cookie;
\* the id of the response is the row that becomes req.user
JwtAuth(token) ==
  LET err == JwtStrategyError(users, token, now) IN
  /\ res' = IF err = NoException
              THEN Response("jwtAuth", [token |-> token], NoException, 200,
                            token.id, NoToken, NoCookie)
              ELSE Failure("jwtAuth", [token |-> token], err)
  /\ UNCHANGED <<users, accounts, userSeq, accountSeq, now, ticks, issued, pending>>

(***************************************************************************)
(* AuthMiddleware.use                                                      *)
(***************************************************************************)
\* catch of use
AuthMiddlewareCatch(e) == UnauthorizedException("Invalid access token")

\* the exception use ends with.  The tokens carry the subject as `id`;
\* use looks the row up by payload.userId, which is undefined, and the
\* lookup does not return a row.
AuthMiddlewareError(token, cookie, t) ==
  IF token = NoToken \/ cookie = NoCookie
    THEN UnauthorizedException("Missing access or refresh token")
  ELSE IF ~JwtVerify(token, JwtAccessSecret, t)
    THEN AuthMiddlewareCatch(RawError("invalid token"))
  ELSE AuthMiddlewareCatch(RawError("Argument where needs at least one of id or email"))

\* a request through the middleware with the two cookies
AuthMiddleware(token, cookie) ==
  /\ res' = Failure("authMiddleware", [token |-> token, cookie |-> cookie],
                    AuthMiddlewareError(token, cookie, now))
  /\ UNCHANGED <<users, accounts, userSeq, accountSeq, now, ticks, issued, pending>>

(***************************************************************************)
(* Requests handled while the store is failing: the Prisma call named by   *)
(* `call` throws.  What the handler does before that call is as in the     *)
(* request handled normally.                                               *)
(***************************************************************************)
StoreError == RawError("Can't reach database server")

\* catch of checkExistingUserEmail
CheckExistingUserEmailCatch(e) ==
  IF e.class = "BadRequestException" THEN e
  ELSE InternalServerErrorException(
         "Something went wrong during checking email. Please try again.")

\* register with user.count or user.create throwing
RegisterStoreFails(name, email, password, call) ==
  LET err ==
        IF ~ValidRegister(name, email, password) THEN RegisterCatch(ZodError)
        ELSE IF call = "count"
          THEN RegisterCatch(CheckExistingUserEmailCatch(StoreError))
        ELSE IF CheckExistingUserEmail(users, email) # NoException
          THEN RegisterCatch(CheckExistingUserEmail(users, email))
        ELSE RegisterCatch(StoreError)
  IN
  /\ call \in {"count", "create"}
  /\ res' = Failure("registerFault",
                    [name |-> name, email |-> email, password |-> password], err)
  /\ UNCHANGED <<users, accounts, userSeq, accountSeq, now, ticks, issued, pending>>

\* login with user.findUnique or user.update throwing
LoginStoreFails(email, password, call) ==
  LET err ==
        IF ~ValidLogin(email, password) THEN LoginCatch(ZodError)
        ELSE IF call = "findUnique"
          THEN LoginCatch(FindUserByEmailCatch(StoreError))
        ELSE IF LoginError(users, email, password) # NoException
          THEN LoginError(users, email, password)
        ELSE LoginCatch(StoreError)
  IN
  /\ call \in {"findUnique", "update"}
  /\ res' = Failure("loginFault", [email |-> email, password |-> password], err)
  /\ UNCHANGED <<users, accounts, userSeq, accountSeq, now, ticks, issued, pending>>

\* validate with account.findFirst throwing: the catch of findAccount turns
\* every error into an InternalServerErrorException
ValidateStoreFails(provider, providerAccountId, email, name, image) ==
  LET err ==
        IF ~ValidValidate(provider, providerAccountId, email, name, image)
          THEN ValidateCatch(ZodError)
        ELSE ValidateCatch(InternalServerErrorException(
               "Something went wrong during finding account. Please try again."))
  IN
  /\ res' = Failure("validateFault",
                    [provider |-> provider, providerAccountId |-> providerAccountId,
                     email |-> email, name |-> name, image |-> image], err)
  /\ UNCHANGED <<users, accounts, userSeq, accountSeq, now, ticks, issued, pending>>

\* generateNewAccessToken with user.findUnique throwing
RefreshStoreFails(cookie) ==
  LET err ==
        IF cookie = NoCookie THEN BadRequestException("Refresh token is missing")
        ELSE IF ~DecryptOk(cookie) THEN RefreshCatch(RawError("bad decrypt"))
        ELSE IF ~JwtVerify(Decrypt(cookie), JwtRefreshSecret, now)
          THEN RefreshCatch(RawError("jwt expired"))
        ELSE RefreshCatch(StoreError)
  IN
  /\ res' = Failure("refreshFault", [cookie |-> cookie], err)
  /\ UNCHANGED <<users, accounts, userSeq, accountSeq, now, ticks, issued, pending>>

(***************************************************************************)
(* Requests                                                                *)
(***************************************************************************)
\* a refresh token signed for a user whose row has since been deleted
GhostCookie == Encrypt(GenerateRefreshToken(9, "old@x.com", "CUSTOMER", 0))
\* a cipher text made under another key
WrongKeyCookie ==
  CipherText(InitialVector, "OTHER_KEY", InitialVector,
             GenerateRefreshToken(9, "old@x.com", "CUSTOMER", 0))

\* what a client can put into the refresh_token cookie
Cookies == issued \cup {GarbageCookie, WrongKeyCookie, GhostCookie}
\* values that are not a cipher text of this deployment
MalformedCookies == {GarbageCookie, TruncatedCookie, NonHexCookie}

\* the access token login signed together with the refresh token of c
AccessOf(c) == GenerateAccessToken(c.pt.id, c.pt.email, c.pt.role, c.pt.iat)
\* the access tokens handed out by login
AccessTokens == {AccessOf(c) : c \in issued}
\* the refresh tokens in the clear, as the debug log of the service has them
RefreshTokens == {Decrypt(c) : c \in issued}
\* an access token put under the cipher
AccessCookies == {Encrypt(a) : a \in AccessTokens}

\* One generateNewAccessToken call at a time is followed through its
\* awaits; while it is in flight the requests that write the refresh
\* digest (login, validate, logout) are interleaved with it.
Sequential == pending = NoCall

\* the login requests made: the right password, a wrong one, one that
\* is too short, a user without password, an unknown and a malformed email
LoginInputs ==
  {<<"ann@x.com", "Secret123">>, <<"ann@x.com", "Wrong1234">>,
   <<"ann@x.com", "short">>, <<"gil@x.com", "Secret123">>,
   <<"bob@x.com", "Secret123">>, <<"not-an-email", "Secret123">>}

\* the validate requests made: a linked identity with its own and with
\* another email, an unlinked identity with a new and with a taken email,
\* a malformed email
ValidateInputs ==
  {<<"g-1", "gil@x.com">>, <<"g-1", "ann@x.com">>, <<"g-2", "new@x.com">>,
   <<"g-2", "gil@x.com">>, <<"g-2", "ann@x.com">>, <<"g-1", "not-an-email">>}

\* the cookies sent to a route behind the middleware
MiddlewareInputs ==
  {<<a, GarbageCookie>> : a \in AccessTokens \cup RefreshTokens \cup {NoToken}}
    \cup {<<a, NoCookie>> : a \in AccessTokens \cup {NoToken}}

Next ==
  \/ Tick /\ AuthOnly
  \/ \E e \in RegisterEmails \cup MalformedEmails, p \in {"Secret123", "short"} :
       Sequential /\ Register(UserName, e, p) /\ AuthOnly
  \/ \E i \in LoginInputs : Login(i[1], i[2]) /\ AuthOnly
  \/ \E c \in Cookies \cup MalformedCookies \cup AccessCookies \cup {NoCookie} :
       Sequential /\ GenerateNewAccessToken(c) /\ AuthOnly
  \/ \E a \in AccessTokens \cup RefreshTokens \cup {NoToken} :
       Sequential /\ JwtAuth(a) /\ AuthOnly
  \/ \E i \in MiddlewareInputs : Sequential /\ AuthMiddleware(i[1], i[2]) /\ AuthOnly
  \/ \E c \in issued \cup {GarbageCookie, NoCookie} :
       Sequential /\ NewToken(c) /\ AuthOnly
  \/ \E c \in Cookies : RefreshBegin(c) /\ AuthOnly
  \/ RefreshFinish /\ AuthOnly
  \/ \E e \in RegisterEmails \cup OAuthEmails : Logout(e) /\ AuthOnly
  \/ \E pr \in Providers, i \in ValidateInputs :
       Validate(pr, i[1], i[2], UserName, UserImage) /\ AuthOnly
  \/ \E call \in {"count", "create"} :
       /\ Sequential
       /\ RegisterStoreFails(UserName, "ann@x.com", "Secret123", call)
       /\ AuthOnly
  \/ \E p \in {"Secret123", "Wrong1234"}, call \in {"findUnique", "update"} :
       Sequential /\ LoginStoreFails("ann@x.com", p, call) /\ AuthOnly
  \/ \E e \in {"gil@x.com", "not-an-email"} :
       /\ Sequential
       /\ ValidateStoreFails("google", "g-1", e, UserName, UserImage)
       /\ AuthOnly
  \/ \E c \in issued \cup {GarbageCookie, NoCookie} :
       Sequential /\ RefreshStoreFails(c) /\ AuthOnly

Spec == Init /\ [][Next]_vars

(***************************************************************************)
(* UserService.update                                                      *)
(***************************************************************************)
\* UserValidation.UPDATE for a request that carries name and password;
\* "" stands for a role the request does not carry
ValidUpdate(name, password, role) ==
  /\ Len(name) >= 1 /\ Len(name) <= 100
  /\ Len(password) >= 1 /\ Len(password) <= 100
  /\ role \in {"", "ADMIN", "CUSTOMER"}

\* updatedUserData: every entry of the request with a truthy value is
\* written, the password as its digest
UpdatedUserData(row, name, password, role) ==
  [row EXCEPT !.name = IF name = "" THEN @ ELSE name,
              !.password = IF password = "" THEN @
                           ELSE BcryptHash(PasswordBytes(password)),
              !.role = IF role = "" THEN @ ELSE role]

\* the exception update ends with, NoException when it writes the row
UpdateError(us, email, name, password, role) ==
  IF ~ValidUpdate(name, password, role) THEN HandleServiceError(ZodError)
  ELSE IF UserIdByEmail(us, email) = 0
    THEN HandleServiceError(NotFoundException("User not found"))
  ELSE NoException

\* PATCH /users/current: user is the row JwtStrategy.validate returned for
\* the caller's access token; the row is addressed by user.email
Update(email, name, password, role) ==
  LET err == UpdateError(users, email, name, password, role)
      id == UserIdByEmail(users, email)
      input == [email |-> email, name |-> name, password |-> password,
                role |-> role]
  IN
  /\ IF err = NoException
       THEN /\ users' = [users EXCEPT
                           ![id] = UpdatedUserData(@, name, password, role)]
            /\ res' = Response("update", input, NoException, 200,
                               id, NoToken, NoCookie)
       ELSE /\ res' = Failure("update", input, err)
            /\ UNCHANGED users
  /\ UNCHANGED <<accounts, userSeq, accountSeq, now, ticks, issued, pending>>

(***************************************************************************)
(* Requests through CommonModule.configure: AuthMiddleware is applied to   *)
(* every route under /api except POST /api/auth/login and                  *)
(* POST /api/auth/register, and runs before the handler of the route.      *)
(***************************************************************************)
\* POST /api/auth/new-token with the two cookies
PostNewToken(token, cookie) ==
  LET input == [token |-> token, cookie |-> cookie]
      err == AuthMiddlewareError(token, cookie, now)
      handled == RefreshResponse("postNewToken", users, cookie, now)
  IN
  /\ res' = IF err # NoException THEN Failure("postNewToken", input, err)
            ELSE IF cookie = NoCookie
              THEN Failure("postNewToken", input,
                           UnauthorizedException("Refresh token not found"))
            ELSE [handled EXCEPT !.input = input]
  /\ UNCHANGED <<users, accounts, userSeq, accountSeq, now, ticks, issued, pending>>

(***************************************************************************)
(* GET /auth/google/redirect: GoogleAuthGuard runs GoogleStrategy.validate *)
(* on the profile Google returned, then AuthController.googleAuthRedirect  *)
(* runs with req.user the value validate handed to done.                   *)
(***************************************************************************)
GoogleAuthRedirect(provider, providerAccountId, email, name, image) ==
  LET \* GoogleStrategy.validate -> AuthService.validate
      err == ValidateError(users, accounts, provider, providerAccountId,
                           email, name, image)
      found == AccountsOf(accounts, provider, providerAccountId)
      us1 == IF found = {} THEN CreatedUsers(users, userSeq, email, name, image)
             ELSE users
      account == IF found = {}
                   THEN CreatedAccount(accountSeq, userSeq + 1, provider,
                                       providerAccountId)
                   ELSE CHOOSE a \in found : TRUE
      err2 == FindUserByIdError(us1, account.userId)
      us2 == FindUserByIdStore(us1, account.userId, now)
      refreshToken == GenerateRefreshToken(account.userId, email,
                                           us2[account.userId].role, now)
      us3 == SetRefreshToken(us2, account.userId, StoredRefreshHash(refreshToken))
      \* googleAuthRedirect: findUserById(user.id), user the Account row
      err3 == FindUserByIdError(us3, account.id)
      us4 == FindUserByIdStore(us3, account.id, now)
      currentUser == us3[account.id]
      input == [provider |-> provider, providerAccountId |-> providerAccountId,
                email |-> email, name |-> name, image |-> image]
  IN
  /\ IF err # NoException
       THEN /\ res' = Failure("googleRedirect", input, err)
            /\ UNCHANGED <<users, accounts, userSeq, accountSeq, pending>>
       ELSE /\ accounts' = accounts \cup {account}
            /\ userSeq' = IF found = {} THEN userSeq + 1 ELSE userSeq
            /\ accountSeq' = IF found = {} THEN accountSeq + 1 ELSE accountSeq
            /\ IF err2 # NoException
                 THEN /\ users' = us1
                      /\ res' = Failure("googleRedirect", input, ValidateCatch(err2))
                      /\ UNCHANGED pending
               ELSE IF err3 # NoException
                 THEN /\ users' = us3
                      /\ res' = Failure("googleRedirect", input, err3)
                      /\ pending' = Overwritten(pending, account.userId, refreshToken)
               ELSE /\ users' = us4
                    /\ res' = Response("googleRedirect", input, NoException, 302,
                                       account.userId,
                                       GenerateAccessToken(account.id,
                                                           currentUser.email,
                                                           currentUser.role, now),
                                       NoCookie)
                    /\ pending' =
                         Overwritten(
                           Overwritten(pending, account.userId, refreshToken),
                           account.id,
                           GenerateRefreshToken(account.id, currentUser.email,
                                                currentUser.role, now))
  /\ UNCHANGED <<now, ticks, issued>>

(***************************************************************************)
(* The requests of one client session, each followed from the route to    *)
(* the response.  The database is empty, or that of an earlier deployment: *)
(* one Google user, or a user registered with a password followed by a     *)
(* Google user, whose Account row then has another id than its User row.   *)
(***************************************************************************)
LaterUsers ==
  (1 :> UserRow(UserName, "ann@x.com", BcryptHash(PasswordBytes("Secret123")), ""))
    @@ (2 :> UserRow(UserName, "gil@x.com", NullHash, UserImage))
LaterAccounts ==
  {[id |-> 1, userId |-> 2, provider |-> "google", providerAccountId |-> "g-1"]}

HttpInit ==
  /\ \/ users = << >> /\ accounts = {} /\ userSeq = 0 /\ accountSeq = 0
     \/ users = SeededUsers /\ accounts = SeededAccounts /\ userSeq = 1 /\ accountSeq = 1
     \/ users = LaterUsers /\ accounts = LaterAccounts /\ userSeq = 2 /\ accountSeq = 1
  /\ now = 0
  /\ ticks = 0
  /\ issued = {}
  /\ res = Failure("init", NoInput, NoException)
  /\ pending = NoCall
  /\ calls = {}
  /\ addresses = {}
  /\ addressSeq = 0

\* the cookies a client of this session sends: the pair a login handed out,
\* the refresh cookie alone once the access_token cookie has lapsed, none
SessionInputs ==
  {<<AccessOf(c), c>> : c \in issued} \cup {<<NoToken, c>> : c \in issued}
    \cup {<<NoToken, NoCookie>>}

HttpNext ==
  \/ Tick /\ AuthOnly
  \/ Register(UserName, "ann@x.com", "Secret123") /\ AuthOnly
  \/ \E p \in {"Secret123", "Wrong1234"} : Login("ann@x.com", p) /\ AuthOnly
  \/ \E e \in {"ann@x.com", "gil@x.com"} : Logout(e) /\ AuthOnly
  \/ \E i \in SessionInputs : AuthMiddleware(i[1], i[2]) /\ AuthOnly
  \/ \E i \in SessionInputs : PostNewToken(i[1], i[2]) /\ AuthOnly
  \/ \E i \in {<<"g-1", "gil@x.com">>, <<"g-2", "new@x.com">>} :
       GoogleAuthRedirect("google", i[1], i[2], UserName, UserImage) /\ AuthOnly
  \/ \E i \in {<<"ann@x.com", "">>, <<"ann@x.com", "ADMIN">>, <<"bob@x.com", "">>,
               <<"ann@x.com", "ROOT">>} :
       Update(i[1], UserName, "Secret123", i[2]) /\ AuthOnly

HttpSpec == HttpInit /\ [][HttpNext]_vars

(***************************************************************************)
(* register and validate followed through their awaits.  A call is in      *)
(* flight between the return of its lookup (user.count in                  *)
(* checkExistingUserEmail, account.findFirst in findAccount) and the code  *)
(* after that await; requests of other callers run in between.             *)
(***************************************************************************)
\* number of requests handled at a time
MaxCallers == 2
Callers == 1..MaxCallers

\* the call of `caller` in flight: its request and what findFirst returned
\* ({} for null; register keeps nothing from its count)
CallInFlight(caller, op, input, found) ==
  [caller |-> caller, op |-> op, input |-> input, found |-> found]

Idle(caller) == \A call \in calls : call.caller # caller

\* register up to the return of checkExistingUserEmail
RegisterBegin(caller, name, email, password) ==
  LET input == [name |-> name, email |-> email, password |-> password]
      err == IF ~ValidRegister(name, email, password) THEN RegisterCatch(ZodError)
             ELSE RegisterCatch(CheckExistingUserEmail(users, email))
  IN
  /\ Idle(caller)
  /\ IF ValidRegister(name, email, password)
        /\ CheckExistingUserEmail(users, email) = NoException
       THEN /\ calls' = calls \cup {CallInFlight(caller, "register", input, {})}
            /\ res' = Failure("registerBegin", input, NoException)
       ELSE /\ res' = Failure("registerBegin", input, err)
            /\ UNCHANGED calls
  /\ UNCHANGED <<users, accounts, userSeq, accountSeq, now, ticks, issued, pending,
                 addresses, addressSeq>>

\* register from bcrypt.hash on: user.create against the unique index on
\* users.email
RegisterFinish(caller) ==
  \E call \in calls :
    LET id == userSeq + 1 IN
    /\ call.caller = caller
    /\ call.op = "register"
    /\ calls' = calls \ {call}
    /\ IF UserCreateOk(users, call.input.email)
         THEN /\ users' = (id :> UserRow(call.input.name, call.input.email,
                                         BcryptHash(PasswordBytes(call.input.password)),
                                         "")) @@ users
              /\ userSeq' = id
              /\ res' = Response("registerInterleaved", call.input, NoException,
                                 201, id, NoToken, NoCookie)
         ELSE /\ res' = Failure("registerInterleaved", call.input,
                                RegisterCatch(RawError(
                                  "Unique constraint failed on the fields: (email)")))
              /\ UNCHANGED <<users, userSeq>>
    /\ UNCHANGED <<accounts, accountSeq, now, ticks, issued, pending,
                   addresses, addressSeq>>

\* validate up to the return of account.findFirst in findAccount
ValidateBegin(caller, provider, providerAccountId, email, name, image) ==
  LET input == [provider |-> provider, providerAccountId |-> providerAccountId,
                email |-> email, name |-> name, image |-> image]
  IN
  /\ Idle(caller)
  /\ IF ValidValidate(provider, providerAccountId, email, name, image)
       THEN /\ calls' = calls \cup
                  {CallInFlight(caller, "validate", input,
                                AccountsOf(accounts, provider, providerAccountId))}
            /\ res' = Failure("validateBegin", input, NoException)
       ELSE /\ res' = Failure("validateBegin", input, ValidateCatch(ZodError))
            /\ UNCHANGED calls
  /\ UNCHANGED <<users, accounts, userSeq, accountSeq, now, ticks, issued, pending,
                 addresses, addressSeq>>

\* mutant: with null from findFirst the user row is created by a write of
\* its own, and the call ends before the Account row is written
ValidateFinishCreatingUser(caller) ==
  \E call \in calls :
    /\ call.caller = caller
    /\ call.op = "validate"
    /\ calls' = calls \ {call}
    /\ IF call.found = {}
         THEN /\ users' = CreatedUsers(users, userSeq, call.input.email,
                                       call.input.name, call.input.image)
              /\ userSeq' = userSeq + 1
              /\ res' = Failure("validateInterleaved", call.input,
                          ValidateCatch(InternalServerErrorException(
                            "Something went wrong during finding account. Please try again.")))
              /\ UNCHANGED <<accounts, accountSeq, now, ticks, issued, pending>>
         ELSE Validate(call.input.provider, call.input.providerAccountId,
                       call.input.email, call.input.name, call.input.image)
    /\ UNCHANGED <<addresses, addressSeq>>

\* validate from the return of findFirst on.  With null the info call of
\* findAccount throws on account.id and the call ends; with a row the rest
\* of validate runs on that row, which no request deletes.
ValidateFinish(caller) ==
  \E call \in calls :
    /\ call.caller = caller
    /\ call.op = "validate"
    /\ calls' = calls \ {call}
    /\ IF call.found = {}
         THEN /\ res' = Failure("validateInterleaved", call.input,
                          ValidateCatch(InternalServerErrorException(
                            "Something went wrong during finding account. Please try again.")))
              /\ UNCHANGED <<users, accounts, userSeq, accountSeq, now, ticks,
                             issued, pending>>
         ELSE Validate(call.input.provider, call.input.providerAccountId,
                       call.input.email, call.input.name, call.input.image)
    /\ UNCHANGED <<addresses, addressSeq>>

RaceNext ==
  \/ \E c \in Callers, p \in {"Secret123", "short"} :
       RegisterBegin(c, UserName, "ann@x.com", p)
  \/ \E c \in Callers : RegisterFinish(c)
  \/ \E c \in Callers,
        i \in {<<"g-1", "gil@x.com">>, <<"g-2", "new@x.com">>, <<"g-2", "gil@x.com">>,
               <<"g-1", "not-an-email">>} :
       ValidateBegin(c, "google", i[1], i[2], UserName, UserImage)
  \/ \E c \in Callers : ValidateFinish(c)

RaceSpec == Init /\ [][RaceNext]_vars

(***************************************************************************)
(* AddressService: create, update and delete of the caller's addresses,    *)
(* one request at a time.  The street of a row stands for the five fields  *)
(* of the unique index (userId, street, city, province, country,           *)
(* postalCode); the other four are the same in every request.              *)
(***************************************************************************)
\* rows the addresses id sequence hands out
MaxAddresses == 3

Streets == {"1 Elm St", "2 Oak Ave"}

ForbiddenException(m) == Exception("ForbiddenException", 403, m)

\* no row: what findFirst and findUnique return as null
NoAddress == [id |-> 0, userId |-> 0, street |-> "", isPrimary |-> FALSE]

AddressRow(id, userId, street, isPrimary) ==
  [id |-> id, userId |-> userId, street |-> street, isPrimary |-> isPrimary]

\* prismaService.address.findFirst({where: {userId, isPrimary: true}}) has
\* no orderBy: the row returned among several is the database's choice
PrimaryAddresses(rows, userId) ==
  IF {a \in rows : a.userId = userId /\ a.isPrimary} = {} THEN {NoAddress}
  ELSE {a \in rows : a.userId = userId /\ a.isPrimary}

\* prismaService.address.update({where: {id}, data: {isPrimary}})
SetIsPrimary(rows, id, isPrimary) ==
  {IF a.id = id THEN [a EXCEPT !.isPrimary = isPrimary] ELSE a : a \in rows}

\* checkSameAddressExists: the exception it ends with
CheckSameAddressExists(rows, userId, street, otherFields) ==
  IF street = "" \/ ~otherFields
    THEN BadRequestException("All address fields must be provided.")
  ELSE IF \E a \in rows : a.userId = userId /\ a.street = street
    THEN HandleServiceError(BadRequestException("This address already exists."))
  ELSE NoException

\* checkExistingAddress: the exception it ends with.  With no row the warn
\* call reads address.id of null.
CheckExistingAddress(rows, id, userId) ==
  IF \A a \in rows : a.id # id
    THEN HandleServiceError(RawError("Cannot read properties of null"))
  ELSE IF \E a \in rows : a.id = id /\ a.userId # userId
    THEN HandleServiceError(
           ForbiddenException("You do not have permission to access this address"))
  ELSE NoException

\* ensureSinglePrimaryAddress: updateMany({where: {userId, isPrimary: true,
\* id: {not: excludeId}}, data: {isPrimary: false}})
EnsureSinglePrimaryAddress(rows, userId, excludeId) ==
  {IF a.userId = userId /\ a.isPrimary /\ a.id # excludeId
     THEN [a EXCEPT !.isPrimary = FALSE] ELSE a : a \in rows}

\* setPrimaryAddress, currentPrimaryAddress the row its findFirst returned
SetPrimaryAddress(rows, address, currentPrimaryAddress) ==
  IF currentPrimaryAddress = NoAddress /\ address.isPrimary
    THEN SetIsPrimary(rows, address.id, TRUE)
  ELSE IF address.isPrimary /\ currentPrimaryAddress.id # address.id
    THEN SetIsPrimary(SetIsPrimary(rows, currentPrimaryAddress.id, FALSE),
                      address.id, TRUE)
  ELSE rows

\* AddressValidation.CREATE: isPrimary defaults to false
ValidCreateAddress(street) == Len(street) >= 1 /\ Len(street) <= 255

\* AddressService.create
CreateAddress(userId, street, isPrimary) ==
  LET input == [userId |-> userId, street |-> street, isPrimary |-> isPrimary]
      err == IF ~ValidCreateAddress(street) THEN HandleServiceError(ZodError)
             ELSE HandleServiceError(
                    CheckSameAddressExists(addresses, userId, street, TRUE))
      noPrimary == PrimaryAddresses(addresses, userId) = {NoAddress}
      address == AddressRow(addressSeq + 1, userId, street,
                            IF noPrimary /\ ~isPrimary THEN TRUE ELSE isPrimary)
      created == addresses \cup {address}
  IN
  /\ addressSeq < MaxAddresses
  /\ IF ~ValidCreateAddress(street)
        \/ CheckSameAddressExists(addresses, userId, street, TRUE) # NoException
       THEN /\ res' = Failure("createAddress", input, err)
            /\ UNCHANGED <<addresses, addressSeq>>
       ELSE /\ addressSeq' = addressSeq + 1
            /\ \E currentPrimaryAddress \in PrimaryAddresses(created, userId) :
                 addresses' = SetPrimaryAddress(created, address,
                                                currentPrimaryAddress)
            /\ res' = Response("createAddress", input, NoException, 201,
                               addressSeq + 1, NoToken, NoCookie)
  /\ UNCHANGED <<users, accounts, userSeq, accountSeq, now, ticks, issued, pending,
                 calls>>

\* AddressService.update; isPrimary is "true", "false" or "absent", street
\* is "" when the request does not carry it
UpdateAddress(userId, addressId, street, isPrimary) ==
  LET input == [userId |-> userId, id |-> addressId, street |-> street,
                isPrimary |-> isPrimary]
      err == IF CheckExistingAddress(addresses, addressId, userId) # NoException
               THEN HandleServiceError(
                      CheckExistingAddress(addresses, addressId, userId))
             ELSE IF street # ""
               THEN HandleServiceError(
                      CheckSameAddressExists(addresses, userId, street, FALSE))
             ELSE NoException
      ensured == IF isPrimary = "true"
                   THEN EnsureSinglePrimaryAddress(addresses, userId, addressId)
                   ELSE addresses
      updated == IF isPrimary = "absent" THEN ensured
                 ELSE SetIsPrimary(ensured, addressId, isPrimary = "true")
      address == CHOOSE a \in updated : a.id = addressId
  IN
  /\ IF err # NoException
       THEN /\ res' = Failure("updateAddress", input, err)
            /\ UNCHANGED addresses
       ELSE /\ \E currentPrimaryAddress \in PrimaryAddresses(updated, userId) :
                 addresses' = SetPrimaryAddress(updated, address,
                                                currentPrimaryAddress)
            /\ res' = Response("updateAddress", input, NoException, 200,
                               addressId, NoToken, NoCookie)
  /\ UNCHANGED <<users, accounts, userSeq, accountSeq, now, ticks, issued, pending,
                 calls, addressSeq>>

\* AddressService.delete
DeleteAddress(userId, id) ==
  LET input == [userId |-> userId, id |-> id]
      err == CheckExistingAddress(addresses, id, userId)
  IN
  /\ IF err # NoException
       THEN /\ res' = Failure("deleteAddress", input, HandleServiceError(err))
            /\ UNCHANGED addresses
       ELSE /\ addresses' = {a \in addresses : a.id # id}
            /\ res' = Response("deleteAddress", input, NoException, 200,
                               id, NoToken, NoCookie)
  /\ UNCHANGED <<users, accounts, userSeq, accountSeq, now, ticks, issued, pending,
                 calls, addressSeq>>

\* two users, each working on addresses through the routes under its own id
AddressInit ==
  /\ users = LaterUsers /\ accounts = LaterAccounts /\ userSeq = 2 /\ accountSeq = 1
  /\ now = 0
  /\ ticks = 0
  /\ issued = {}
  /\ res = Failure("init", NoInput, NoException)
  /\ pending = NoCall
  /\ calls = {}
  /\ addresses = {}
  /\ addressSeq = 0

AddressNext ==
  \/ \E u \in DOMAIN users, s \in Streets, p \in BOOLEAN : CreateAddress(u, s, p)
  \/ \E u \in DOMAIN users, id \in 1..MaxAddresses, s \in {"", "2 Oak Ave"},
        p \in {"true", "false", "absent"} : UpdateAddress(u, id, s, p)
  \/ \E u \in DOMAIN users, id \in 1..MaxAddresses : DeleteAddress(u, id)

AddressSpec == AddressInit /\ [][AddressNext]_vars

(***************************************************************************)
(* Claims                                                                  *)
(***************************************************************************)
IsRefreshCall(r) == r.op \in {"refresh", "newToken"}
RefreshTokenMismatch == UnauthorizedException("Invalid refresh token")
NoActiveSession == UnauthorizedException("Refresh token not found")
DuplicateEmail == BadRequestException("This email is already registered.")
InvalidCredentials == UnauthorizedException("Invalid email or password.")

\* C1: once a later login has issued a refresh token r2 # r1 for the same
\* account and its digest is the stored one, every refresh call that
\* presents encrypt(r1), r1 still unexpired, fails with RefreshTokenMismatch.
C1_RotationInvalidatesOldToken ==
  \A c1 \in issued : \A c2 \in issued :
    ( /\ c1.pt.id = c2.pt.id
      /\ c1.pt # c2.pt
      /\ c1.pt.iat < c2.pt.iat
      /\ users[c1.pt.id].refreshToken = StoredRefreshHash(c2.pt)
      /\ JwtVerify(c1.pt, JwtRefreshSecret, now)
      /\ IsRefreshCall(res)
      /\ res.input.cookie = c1 )
    => res.err = RefreshTokenMismatch

\* the state a successful login leaves
C2_LoginState ==
  (res.op = "login" /\ res.err = NoException) =>
    /\ res.refreshToken =
         Encrypt(GenerateRefreshToken(res.id, users[res.id].email,
                                      users[res.id].role, now))
    /\ DecryptOk(res.refreshToken)
    /\ users[res.id].refreshToken = StoredRefreshHash(Decrypt(res.refreshToken))
    /\ BcryptCompare(TokenBytes(Decrypt(res.refreshToken)),
                     users[res.id].refreshToken)

\* a refresh call made next with the value the login returned
C2_RefreshFollows ==
  ( /\ res.op = "login"
    /\ res.err = NoException
    /\ IsRefreshCall(res')
    /\ res'.input.cookie = res.refreshToken )
  => (res'.err = NoException /\ res'.id = res.id /\ res'.accessToken.id = res.id)

\* C2: after a successful login the returned refresh value is the cipher
\* text of a refresh token signed at that moment for the account, the stored
\* digest is the digest of that token and compares equal to the decrypted
\* value, and a refresh call that immediately follows with the returned
\* value succeeds for the same account.
C2_LoginStoresUsableRefreshToken == []C2_LoginState /\ [][C2_RefreshFollows]_vars

\* a refresh call has succeeded with the token of a login made in the same second
C2_Witness ==
  /\ IsRefreshCall(res)
  /\ res.err = NoException
  /\ res.input.cookie \in issued
  /\ res.input.cookie.pt.iat = now

UniqueEmails ==
  \A i \in DOMAIN users : \A j \in DOMAIN users :
    users[i].email = users[j].email => i = j

C3_SecondRegisterFails ==
  ( /\ res'.op = "register"
    /\ ValidRegister(res'.input.name, res'.input.email, res'.input.password)
    /\ UsersWithEmail(users, res'.input.email) # {} )
  => (res'.err = DuplicateEmail /\ res'.status = 400 /\ users' = users)

\* C3: no two User rows share an email, and a register with valid input for
\* an email that already has a row fails with DuplicateEmail (400) and
\* leaves the rows as they were.
C3_EmailUniqueness == []UniqueEmails /\ [][C3_SecondRegisterFails]_vars

\* a valid register for a registered email has been refused
C3_Witness ==
  /\ res.op = "register"
  /\ res.err = DuplicateEmail
  /\ UsersWithEmail(users, res.input.email) # {}

\* a validate request that passes AuthValidation.VALIDATEUSER
C4_Input(r) ==
  /\ r.op = "validate"
  /\ ValidValidate(r.input.provider, r.input.providerAccountId, r.input.email,
                   r.input.name, r.input.image)

C4_FirstCall ==
  ( /\ C4_Input(res')
    /\ AccountsOf(accounts, res'.input.provider, res'.input.providerAccountId) = {}
    /\ UsersWithEmail(users, res'.input.email) = {} )
  => /\ res'.err = NoException
     /\ Cardinality(UsersWithEmail(users', res'.input.email)) = 1
     /\ Cardinality(AccountsOf(accounts', res'.input.provider,
                               res'.input.providerAccountId)) = 1
     /\ \A a \in AccountsOf(accounts', res'.input.provider,
                            res'.input.providerAccountId) : a.userId = res'.id

C4_SecondCall ==
  ( /\ C4_Input(res)
    /\ res.err = NoException
    /\ res'.op = "validate"
    /\ res'.input = res.input )
  => /\ res'.err = NoException
     /\ res'.id = res.id
     /\ accounts' = accounts
     /\ DOMAIN users' = DOMAIN users

\* C4: a validate for a (provider, providerAccountId) that has no Account
\* row and an email that has no User row succeeds and leaves exactly one
\* User row with the email and one Account row for the pair; the same call
\* made again succeeds, creates nothing and resolves to the same user.
C4_OAuthIdempotency == [][C4_FirstCall /\ C4_SecondCall]_vars

C5_Step ==
  ( /\ C4_Input(res')
    /\ AccountsOf(accounts, res'.input.provider, res'.input.providerAccountId) = {}
    /\ UsersWithEmail(users, res'.input.email) # {} )
  => /\ res'.err = DuplicateEmail
     /\ res'.status = 400
     /\ users' = users
     /\ accounts' = accounts

\* C5: a validate for a pair that has no Account row and an email that
\* already has a User row fails with DuplicateEmail (400) and leaves the
\* User and Account rows, the stored refresh digest included, as they were.
C5_OAuthEmailTaken == [][C5_Step]_vars

\* the failure the stated order of checks names for a presented value
FirstFailingCheck(us, cookie, t) ==
  IF cookie = NoCookie THEN "MissingToken"
  ELSE IF ~DecryptOk(cookie) THEN "InvalidToken"
  ELSE IF ~JwtVerify(Decrypt(cookie), JwtRefreshSecret, t) THEN "InvalidOrExpiredToken"
  ELSE IF Decrypt(cookie).id \notin DOMAIN us THEN "AccountNotFound"
  ELSE IF us[Decrypt(cookie).id].refreshToken = NullHash THEN "NoActiveSession"
  ELSE IF ~BcryptCompare(TokenBytes(Decrypt(cookie)),
                         us[Decrypt(cookie).id].refreshToken)
    THEN "RefreshTokenMismatch"
  ELSE "none"

\* the failure a caller can tell from the exception it receives
FailureName(err) ==
  CASE err = NoException -> "none"
    [] err = BadRequestException("Refresh token is missing") -> "MissingToken"
    [] err = UnauthorizedException("User not found") -> "AccountNotFound"
    [] err = NoActiveSession -> "NoActiveSession"
    [] err = RefreshTokenMismatch -> "RefreshTokenMismatch"
    [] OTHER -> "Unexpected"

\* C6: generateNewAccessToken fails with the named failure of the first
\* check that does not pass, in the order token present, decrypt, verify,
\* load the row of the subject, stored digest present, digest compares
\* equal; when all pass it returns an access token whose subject is the row
\* loaded from the subject id of the refresh token.
C6_RefreshCheckOrder ==
  res.op = "refresh" =>
    /\ FailureName(res.err) = FirstFailingCheck(users, res.input.cookie, now)
    /\ res.err = NoException =>
         /\ res.accessToken.id = Decrypt(res.input.cookie).id
         /\ res.accessToken.email = users[Decrypt(res.input.cookie).id].email

\* C7: every POST /auth/new-token that fails is answered with 401 and sets
\* no access_token cookie.
C7_NewTokenFailuresAre401 ==
  (res.op = "newToken" /\ res.err # NoException) =>
    (res.status = 401 /\ res.accessToken = NoToken)

C8_LogoutClears ==
  (res.op = "logout" /\ res.err = NoException) =>
    users[res.id].refreshToken = NullHash

\* a token that login issued for a row whose digest is null was issued
\* before the logout that cleared it: only logout writes null
C8_RefreshAfterLogout(unexpiredOnly) ==
  \A c \in issued :
    ( /\ IsRefreshCall(res)
      /\ res.input.cookie = c
      /\ users[c.pt.id].refreshToken = NullHash
      /\ unexpiredOnly => JwtVerify(c.pt, JwtRefreshSecret, now) )
    => res.err = NoActiveSession

\* C8: after a logout the stored refresh digest of the row is null, and
\* until a login or validate stores a new one every refresh call that
\* presents a refresh token issued for the row before fails with
\* NoActiveSession.
C8_LogoutEndsSession == C8_LogoutClears /\ C8_RefreshAfterLogout(FALSE)

\* C8, amended: after a logout the stored refresh digest of the row is
\* null, and until a login or validate stores a new one every refresh call
\* that presents a still unexpired refresh token issued for the row before
\* fails with NoActiveSession.
C8_LogoutEndsUnexpiredSession == C8_LogoutClears /\ C8_RefreshAfterLogout(TRUE)

\* an unexpired token issued by a login has been refused after a logout
C8_Witness ==
  /\ IsRefreshCall(res)
  /\ res.input.cookie \in issued
  /\ JwtVerify(res.input.cookie.pt, JwtRefreshSecret, now)
  /\ users[res.input.cookie.pt.id].refreshToken = NullHash
  /\ res.err = NoActiveSession

C9_LogoutStep ==
  ( /\ res'.op = "logout"
    /\ UsersWithEmail(users, res'.input.email) # {} )
  => LET id == UserIdByEmail(users, res'.input.email) IN
     /\ res'.err = NoException
     /\ res'.status = 200
     /\ users' = [users EXCEPT ![id].refreshToken = NullHash]
     /\ accounts' = accounts
     /\ LogoutError(users', res'.input.email) = NoException
     /\ LogoutStore(users', id) = users'

C9_SecondLogout ==
  ( /\ res.op = "logout"
    /\ res.err = NoException
    /\ res'.op = "logout"
    /\ res'.input = res.input )
  => (users' = users /\ res' = res)

\* C9: for an existing row logout succeeds whether or not a digest is
\* stored, sets the digest to null and changes nothing else; a second logout
\* changes nothing more and has the same result.
C9_LogoutIdempotent == [][C9_LogoutStep /\ C9_SecondLogout]_vars

\* a logout has succeeded on a row that never had a digest stored, with
\* another row present
C9_Witness ==
  /\ res.op = "logout"
  /\ res.err = NoException
  /\ issued = {}
  /\ Cardinality(DOMAIN users) = 2

\* a login with valid input for an unknown email or with a wrong password
C10_FailedLogin(r, us) ==
  /\ r.op = "login"
  /\ ValidLogin(r.input.email, r.input.password)
  /\ \/ UsersWithEmail(us, r.input.email) = {}
     \/ /\ UsersWithEmail(us, r.input.email) # {}
        /\ us[UserIdByEmail(us, r.input.email)].password # NullHash
        /\ ~BcryptCompare(PasswordBytes(r.input.password),
                          us[UserIdByEmail(us, r.input.email)].password)

\* C10: a login with valid input fails the same way, InvalidCredentials
\* (401, 'Invalid email or password.'), whether no row has the email or the
\* password does not match the row's digest.
C10_LoginFailureUniform ==
  C10_FailedLogin(res, users) => (res.err = InvalidCredentials /\ res.status = 401)

\* a refresh token the store accepts at time t
Accepted(us, c, t) == RefreshError(us, c, t) = NoException

C11_Step ==
  (res'.op = "login" /\ res'.err # NoException) =>
    /\ DOMAIN users' = DOMAIN users
    /\ \A i \in DOMAIN users : users'[i].refreshToken = users[i].refreshToken
    /\ \A c \in issued : Accepted(users, c, now) => Accepted(users', c, now')

\* C11: a login that fails (wrong password, unknown email, invalid input)
\* leaves the stored refresh digest of every row unchanged, and every
\* refresh token that generateNewAccessToken accepted before it is accepted
\* after it.
C11_FailedLoginKeepsSession == [][C11_Step]_vars

\* a login has failed on the password while a row holds the digest of an
\* issued token that is still accepted
C11_Witness ==
  /\ res.op = "login"
  /\ res.err = InvalidCredentials
  /\ \E c \in issued : c.pt.email = res.input.email /\ Accepted(users, c, now)

C12_Step ==
  ( /\ res'.op = "refreshInterleaved"
    /\ pending.overwrittenBy # NoToken
    /\ pending.overwrittenBy # Decrypt(pending.cookie) )
  => res'.err # NoException

\* C12: a generateNewAccessToken call for r1 that is in flight while a login
\* or validate stores the digest of another refresh token r2 in the same
\* row does not return an access token after that store has been committed.
C12_RotationAtomic == [][C12_Step]_vars

\* the operations of AuthService a caller invokes, handled normally,
\* interleaved, or with the store failing
AuthOps ==
  {"register", "login", "validate", "refresh", "refreshInterleaved",
   "registerFault", "loginFault", "validateFault", "refreshFault"}
FaultOps == {"registerFault", "loginFault", "validateFault", "refreshFault"}

\* the Unexpected error of each operation
Unexpected(op) ==
  InternalServerErrorException(
    CASE op \in {"register", "registerFault"} ->
           "Something went wrong during registration. Please try again."
      [] op \in {"login", "loginFault"} ->
           "Something went wrong during login. Please try again."
      [] op \in {"validate", "validateFault"} ->
           "Something went wrong during validation account. Please try again"
      [] OTHER ->
           "Something went wrong during generate access token. Please try again.")

\* errors that are not of the taxonomy
RawErrors ==
  {StoreError, RawError("Cannot read properties of null"),
   RawError("Illegal arguments: string, object"), RawError("bad decrypt"),
   RawError("jwt expired"), NotFoundException("User not found"),
   InternalServerErrorException(
     "Something went wrong during finding user. Please try again.")}

\* the request reached the store call that throws
C13_StoreCallReached(r, us, t) ==
  CASE r.op = "registerFault" ->
         /\ ValidRegister(r.input.name, r.input.email, r.input.password)
         /\ UsersWithEmail(us, r.input.email) = {}
    [] r.op = "loginFault" ->
         /\ ValidLogin(r.input.email, r.input.password)
         /\ \/ UsersWithEmail(us, r.input.email) = {}
            \/ LoginError(us, r.input.email, r.input.password) = NoException
    [] r.op = "validateFault" ->
         ValidValidate(r.input.provider, r.input.providerAccountId,
                       r.input.email, r.input.name, r.input.image)
    [] r.op = "refreshFault" ->
         /\ r.input.cookie # NoCookie
         /\ DecryptOk(r.input.cookie)
         /\ JwtVerify(Decrypt(r.input.cookie), JwtRefreshSecret, t)
    [] OTHER -> FALSE

\* a library or programming error occurred in the request
C13_LibraryError(r, us) ==
  CASE r.op = "login" ->
         /\ ValidLogin(r.input.email, r.input.password)
         /\ \/ UsersWithEmail(us, r.input.email) = {}
            \/ us[UserIdByEmail(us, r.input.email)].password = NullHash
    [] r.op = "validate" ->
         /\ ValidValidate(r.input.provider, r.input.providerAccountId,
                          r.input.email, r.input.name, r.input.image)
         /\ AccountsOf(accounts, r.input.provider, r.input.providerAccountId) = {}
    [] r.op \in {"refresh", "refreshFault"} ->
         r.input.cookie # NoCookie /\ ~DecryptOk(r.input.cookie)
    [] OTHER -> FALSE

\* C13: a failure of register, login, validate or generateNewAccessToken
\* that is not a named error (a store call that throws, a crypto or JWT
\* library error, a programming error) reaches the caller as the
\* InternalServerErrorException (500) with the fixed message of the
\* operation; the caller never receives the underlying error and no value
\* is returned.
C13_UnexpectedConversion ==
  /\ \A e \in RawErrors :
       /\ RegisterCatch(e) = Unexpected("register")
       /\ LoginCatch(e) = Unexpected("login")
       /\ ValidateCatch(e) = Unexpected("validate")
       /\ RefreshCatch(e) = Unexpected("refresh")
  /\ res.op \in AuthOps =>
       /\ res.err.class \in {"none", "BadRequestException", "UnauthorizedException",
                              "InternalServerErrorException"}
       /\ res.err.class = "InternalServerErrorException" =>
            (res.err = Unexpected(res.op) /\ res.status = 500)
       /\ res.err # NoException =>
            (res.id = 0 /\ res.accessToken = NoToken /\ res.refreshToken = NoCookie)
       /\ (C13_StoreCallReached(res, users, now) \/ C13_LibraryError(res, users)) =>
            res.err = Unexpected(res.op)

\* a login that would have succeeded has ended as Unexpected because the
\* store threw
C13_Witness ==
  /\ res.op = "loginFault"
  /\ LoginError(users, res.input.email, res.input.password) = NoException
  /\ res.err = Unexpected("login")
  /\ res.status = 500

\* the tokens TokenSigner produces for the rows of the store at this moment
SignedNow ==
  UNION {{GenerateAccessToken(i, users[i].email, users[i].role, now),
          GenerateRefreshToken(i, users[i].email, users[i].role, now)} :
         i \in DOMAIN users}

C15_BadCookies == MalformedCookies \cup {WrongKeyCookie}

\* C15: for a value that is malformed (no separator, truncated, not hex) or
\* was encrypted under a different key, decrypt throws instead of returning
\* a plaintext, and generateNewAccessToken given the value returns no
\* access token.
C15_FailClosedDecryption ==
  (res.op \in {"refresh", "newToken"} /\ res.input.cookie \in C15_BadCookies) =>
    /\ DecryptOutcomes(res.input.cookie) = {DecryptRaises}
    /\ res.err # NoException
    /\ res.accessToken = NoToken

C16_Step ==
  (res'.op = "login" /\ res'.err = NoException) =>
    /\ \A c \in issued : c.ivUsed # res'.refreshToken.ivUsed
    /\ res'.refreshToken \notin issued

\* C16: every encrypt call draws its own IV: no value returned by a login
\* was made with the IV of a value returned before, and encrypting the same
\* refresh token again gives a different string.
C16_FreshIvPerEncrypt == [][C16_Step]_vars

\* the answer to a request whose access token failed verification
InvalidOrExpiredAccess ==
  {UnauthorizedException("Unauthorized"), UnauthorizedException("Invalid access token")}

\* C17: an access token is rejected as invalid or expired (401) by every
\* verification made 15 minutes or more after it was signed, and a refresh
\* token presented to generateNewAccessToken 30 days or more after it was
\* signed is rejected, even when its digest equals the stored one.
C17_TtlEnforced ==
  /\ \A c \in issued :
       /\ now >= c.pt.iat + AccessTTL => ~JwtVerify(AccessOf(c), JwtAccessSecret, now)
       /\ now >= c.pt.iat + RefreshTTL => ~JwtVerify(Decrypt(c), JwtRefreshSecret, now)
  /\ ( /\ res.op = "jwtAuth"
       /\ res.input.token \in AccessTokens
       /\ now >= res.input.token.iat + AccessTTL )
     => (res.err \in InvalidOrExpiredAccess /\ res.status = 401)
  /\ ( /\ res.op = "authMiddleware"
       /\ res.input.token \in AccessTokens
       /\ res.input.cookie # NoCookie
       /\ now >= res.input.token.iat + AccessTTL )
     => (res.err \in InvalidOrExpiredAccess /\ res.status = 401)
  /\ ( /\ res.op \in {"refresh", "newToken", "refreshFault"}
       /\ res.input.cookie \in issued
       /\ now >= Decrypt(res.input.cookie).iat + RefreshTTL )
     => (res.err # NoException /\ res.accessToken = NoToken)

\* a refresh token has been refused 30 days after it was signed while the
\* row still holds its digest
C17_Witness ==
  /\ res.op = "refresh"
  /\ res.input.cookie \in issued
  /\ now >= Decrypt(res.input.cookie).iat + RefreshTTL
  /\ BcryptCompare(TokenBytes(Decrypt(res.input.cookie)),
                   users[Decrypt(res.input.cookie).id].refreshToken)
  /\ res.err # NoException

\* C18: a token signed as a refresh token is not accepted where an access
\* token is verified (JwtStrategy, AuthMiddleware), and a token signed as an
\* access token is not accepted by the verification in
\* generateNewAccessToken.
C18_PurposeSeparation ==
  /\ \A c \in issued :
       /\ ~JwtVerify(Decrypt(c), JwtAccessSecret, now)
       /\ ~JwtVerify(AccessOf(c), JwtRefreshSecret, now)
  /\ ( /\ res.op \in {"jwtAuth", "authMiddleware"}
       /\ res.input.token \in RefreshTokens )
     => res.err # NoException
  /\ ( /\ res.op = "refresh"
       /\ res.input.cookie \in AccessCookies )
     => (res.err # NoException /\ res.accessToken = NoToken)

\* an unexpired refresh token of an existing row has been refused by
\* JwtStrategy
C18_Witness ==
  /\ res.op = "jwtAuth"
  /\ res.input.token \in RefreshTokens
  /\ res.input.token.id \in DOMAIN users
  /\ now < res.input.token.exp
  /\ res.err = UnauthorizedException("Unauthorized")

C19_Step ==
  (res'.op = "register" /\ res'.err = NoException) =>
    /\ res'.id \notin DOMAIN users
    /\ DOMAIN users' = DOMAIN users \cup {res'.id}
    /\ \A i \in DOMAIN users : users'[i] = users[i]
    /\ users'[res'.id].email = res'.input.email
    /\ users'[res'.id].role = "CUSTOMER"
    /\ users'[res'.id].password.kind = "bcrypt"
    /\ users'[res'.id].password # PasswordBytes(res'.input.password)
    /\ BcryptCompare(PasswordBytes(res'.input.password), users'[res'.id].password)
    /\ users'[res'.id].refreshToken = NullHash
    /\ res'.accessToken = NoToken
    /\ res'.refreshToken = NoCookie
    /\ accounts' = accounts
    /\ issued' = issued

\* C19: a successful register creates exactly one row, with role CUSTOMER,
\* the digest of the password (not the password) and no refresh digest,
\* returns a profile without access or refresh token, and changes no other
\* row.
C19_RegisterDoesNotAuthenticate == [][C19_Step]_vars

\* a register has succeeded next to an existing row
C19_Witness ==
  /\ res.op = "register"
  /\ res.err = NoException
  /\ Cardinality(DOMAIN users) = 2
  /\ users[res.id].refreshToken = NullHash

RefreshOps == {"refresh", "newToken", "refreshBegin", "refreshInterleaved", "refreshFault"}

C20_Step ==
  /\ res'.op \in RefreshOps => (users' = users /\ accounts' = accounts)
  /\ res'.op \notin {"login", "validate", "logout"} =>
       \A c \in issued :
         (Accepted(users, c, now) /\ JwtVerify(Decrypt(c), JwtRefreshSecret, now'))
           => Accepted(users', c, now')
  /\ ( /\ IsRefreshCall(res)
       /\ res.err = NoException
       /\ IsRefreshCall(res')
       /\ res'.input = res.input )
     => res'.err = NoException

\* C20: generateNewAccessToken does not write the store, whether it succeeds
\* or fails; a refresh token that is accepted stays accepted, presentation
\* after presentation, until it expires or a login, validate or logout
\* intervenes.
C20_RefreshNeverWrites == [][C20_Step]_vars

\* a refresh token has been accepted after the access token signed with it
\* had expired
C20_Witness ==
  /\ res.op = "newToken"
  /\ res.err = NoException
  /\ now >= Decrypt(res.input.cookie).iat + AccessTTL
  /\ users[res.id].refreshToken = StoredRefreshHash(Decrypt(res.input.cookie))

\* d is the digest of a refresh token signed for row i
RefreshDigestFor(d, i, role) ==
  \E e \in Emails :
    d = BcryptHash(TokenBytes(JwtSign(i, e, role, JwtRefreshSecret, RefreshTTL, now)))

\* c is the cipher text, made by encrypt, of a refresh token signed for row i
RefreshCipherFor(c, i) ==
  /\ c.kind = "cipher"
  /\ c = Encrypt(c.pt)
  /\ c.pt.kind = "jwt"
  /\ c.pt.secret = JwtRefreshSecret
  /\ c.pt.id = i

\* C21: the refreshToken column of every user row is null or the bcrypt
\* digest of a refresh token signed for that row, never the token and never
\* its cipher text; every refresh token value an operation returns or sets
\* as the refresh_token cookie is the cipher text made by encrypt, never the
\* signed token.
C21_RefreshTokenAtRest ==
  /\ \A i \in DOMAIN users :
       \/ users[i].refreshToken = NullHash
       \/ RefreshDigestFor(users[i].refreshToken, i, users[i].role)
  /\ res.refreshToken # NoCookie => RefreshCipherFor(res.refreshToken, res.id)
  /\ \A c \in issued : RefreshCipherFor(c, c.pt.id)

\* a login has stored a digest and returned the cipher text of the token
C21_Witness ==
  /\ res.op = "login"
  /\ res.err = NoException
  /\ users[res.id].refreshToken = BcryptHash(TokenBytes(Decrypt(res.refreshToken)))
  /\ res.refreshToken \in issued

C23_Step ==
  (res'.op = "googleRedirect" /\ res'.err = NoException) =>
    \A a \in AccountsOf(accounts', res'.input.provider,
                        res'.input.providerAccountId) :
      /\ res'.accessToken.id = a.userId
      /\ users'[a.userId].refreshToken # NullHash
      /\ \A i \in DOMAIN users :
           i # a.userId => users'[i].refreshToken = users[i].refreshToken

\* C23: when GET /auth/google/redirect succeeds, the access token set as
\* cookie has as subject the userId of the Account row of the Google
\* identity, and the refresh digest the flow rotates is that of the same
\* user row and of no other.
C23_GoogleSubjectIsLinkedUser == [][C23_Step]_vars

\* C24: when GET /auth/google/redirect succeeds, the response carries a
\* refresh_token cookie whose token is the one the stored digest was taken
\* of, so that a POST /auth/new-token with it succeeds.
C24_GoogleDeliversRefreshCookie ==
  (res.op = "googleRedirect" /\ res.err = NoException) =>
    /\ res.refreshToken # NoCookie
    /\ Accepted(users, res.refreshToken, now)

\* C27: AuthMiddleware lets a request pass, with req.user the row of the
\* token's id, exactly when both cookies are present, the access token
\* verifies under JWT_ACCESS_SECRET at the current time and a row with the
\* token's id exists; every other request is answered 401.
C27_MiddlewareAdmitsValidToken ==
  res.op = "authMiddleware" =>
    IF /\ res.input.token # NoToken
       /\ res.input.cookie # NoCookie
       /\ JwtVerify(res.input.token, JwtAccessSecret, now)
       /\ res.input.token.id \in DOMAIN users
      THEN res.err = NoException /\ res.id = res.input.token.id
      ELSE res.status = 401

\* C28: a login with the email of a row without password digest fails with
\* InvalidCredentials (401) whatever the password, and returns no tokens.
C28_PasswordlessLoginIs401 ==
  ( /\ res.op = "login"
    /\ ValidLogin(res.input.email, res.input.password)
    /\ UsersWithEmail(users, res.input.email) # {}
    /\ users[UserIdByEmail(users, res.input.email)].password = NullHash )
  => /\ res.err = InvalidCredentials
     /\ res.status = 401
     /\ res.accessToken = NoToken
     /\ res.refreshToken = NoCookie

\* C30: the role of a row created as CUSTOMER stays CUSTOMER through every
\* register, login, refresh, logout and update request.
C30_RoleUnchanged == \A i \in DOMAIN users : users[i].role = "CUSTOMER"

\* the rows created by validate: the user rows without password digest
OAuthUsers(us) == {i \in DOMAIN us : us[i].password = NullHash}

C26_Step ==
  ( /\ res'.op = "registerInterleaved"
    /\ UsersWithEmail(users, res'.input.email) # {} )
  => /\ res'.err = DuplicateEmail
     /\ res'.status = 400
     /\ users' = users

\* C26: of two register calls for one email that both pass the existence
\* check before either creates, one creates the row and the other fails
\* with DuplicateEmail (400); no second row with the email is created.
C26_RegisterRaceIsDuplicateEmail == []UniqueEmails /\ [][C26_Step]_vars

\* C29: after any sequence of completed create, update and delete requests
\* made one at a time, a user has at most one address with isPrimary true,
\* whichever primary row findFirst returns.
C29_SinglePrimary ==
  \A u \in DOMAIN users :
    Cardinality({a \in addresses : a.userId = u /\ a.isPrimary}) <= 1

====
